---- MODULE Spec2Model ----
(***************************************************************************)
(* Session admission and lifecycle of the gotty WebSocket server:          *)
(* the session guard (beginManagedSession / finish), the health flag,      *)
(* the live-connection counter and the WebSocket handler generateHandleWS. *)
(* Every request handler is a process; its steps are the points of the     *)
(* handler at which it touches shared state or blocks. What the handler    *)
(* only logs (the close reason) is left out.                               *)
(***************************************************************************)
EXTENDS Integers, FiniteSets, Sequences, TLC

\* ------------------------------------------------------------- bounds
\* number of request handlers (goroutines) that can be in flight at once
NumHandlers == 2
\* the configured MaxConnection option ranges over 0..MaxConnLimit
MaxConnLimit == 1

Handlers == 1..NumHandlers

\* ------------------------------------------------------------- constants
envValueDev == "dev"
envValueProd == "prod"
errSessionActive == "Another session is active"
errServerDestroyed == "Server has been destroyed"
NoError == "nil"

VARIABLES
    decommissioned,   \* Server.decommissioned (guarded by sessionMu)
    activeSession,    \* Server.activeSession  (guarded by sessionMu)
    unhealthy,        \* Server.unhealthy      (atomic int32, as a boolean)
    sessionMu,        \* holder of Server.sessionMu, 0 when free
    live,             \* the counter's live count
    once,             \* the once flag of generateHandleWS (0 or 1)
    ctxCanceled,      \* whether the process-wide context has been canceled
    options,          \* Server.options: [MaxConnection, Once]
    req               \* per handler: the locals of one run of the handler

vars == <<decommissioned, activeSession, unhealthy, sessionMu, live, once,
          ctxCanceled, options, req>>

server == <<decommissioned, activeSession, unhealthy, sessionMu>>

\* ------------------------------------------------------------- errors
\* An error value is its message and its root cause; a sentinel or nil has
\* no message and is its own cause.
NilErr == [msg |-> "", cause |-> NoError]

Sentinel(c) == [msg |-> "", cause |-> c]

\* pkgerrors.New(m): a fresh error, its own cause
ErrNew(m) == [msg |-> m, cause |-> m]

\* pkgerrors.Wrapf(e, m): message m around e, the cause of e kept
Wrapf(e, m) == [msg |-> m, cause |-> e.cause]

\* pkgerrors.Cause(e)
Cause(e) == e.cause

CleanCauses ==
    {"context.Canceled", "context.DeadlineExceeded", "ErrMasterClosed", "ErrSlaveClosed"}

\* shouldDecommission with the nil case lost
shouldDecommissionNilLost(e) == Cause(e) \in CleanCauses

\* shouldDecommission with every error taken as a clean end
shouldDecommissionAnyError(e) == TRUE

shouldDecommission(e) ==
    IF e = NilErr THEN TRUE
    ELSE Cause(e) \in CleanCauses

\* ------------------------------------------------------------- environment
\* strings.ToLower on the values the model feeds
ToLower(s) ==
    CASE s = "DEV" -> "dev"
      [] s = "PROD" -> "prod"
      [] OTHER -> s

\* the ENV query parameter ("" when absent) and the gotty.env cookie
\* ("" when absent)
QueryValues == {"", "dev", "DEV", "prod"}
CookieValues == {"", "dev", "prod"}

resolveEnvFromRequest(query, cookie) ==
    LET envValue == IF query # "" THEN query ELSE cookie
    IN  IF envValue = "" THEN envValueProd ELSE ToLower(envValue)

\* ------------------------------------------------------------- session guard
\* beginManagedSession without the activeSession check
beginManagedSessionErrNoActiveCheck(dec, act, env) ==
    IF dec THEN errServerDestroyed ELSE NoError

\* beginManagedSession with the activeSession check ahead of the dev check
beginManagedSessionErrDevChecked(dec, act, env) ==
    IF dec THEN errServerDestroyed
    ELSE IF act THEN errSessionActive
    ELSE NoError

\* beginManagedSession without the decommissioned check
beginManagedSessionErrNoDestroyedCheck(dec, act, env) ==
    IF env = envValueDev THEN NoError
    ELSE IF act THEN errSessionActive
    ELSE NoError

\* the error beginManagedSession returns
beginManagedSessionErr(dec, act, env) ==
    IF dec THEN errServerDestroyed
    ELSE IF env = envValueDev THEN NoError
    ELSE IF act THEN errSessionActive
    ELSE NoError

\* activeSession after beginManagedSession
beginManagedSessionActive(dec, act, env) ==
    IF beginManagedSessionErr(dec, act, env) = NoError /\ env # envValueDev
    THEN TRUE
    ELSE act

\* finish without the dev return
finishActiveAnyEnv(env, act) == FALSE

\* activeSession after finish
finishActive(env, act) ==
    IF env = envValueDev THEN act ELSE FALSE

\* finish without the test of server.decommissioned
finishDestroysAgain(env, decommission, dec) ==
    env # envValueDev /\ decommission

\* whether finish performs the decommission (its return value)
finishDestroys(env, decommission, dec) ==
    env # envValueDev /\ decommission /\ ~dec

\* markUnhealthy with the store lost
markUnhealthyNoStore(u) == u

\* the value markUnhealthy stores in Server.unhealthy
markUnhealthy(u) == TRUE

\* a health flag that always reads healthy
isUnhealthyNever(u) == FALSE

\* isUnhealthy
isUnhealthy(u) == u

\* ------------------------------------------------------------- counter
counterAdd(c, n) == c + n

counterDone(c) == c - 1

\* ------------------------------------------------------------- handshake
Methods == {"GET", "POST"}

Credentials == {"secret"}

\* the max-connection check with >= for >
exceedsMaxConnectionOffByOne(maxConnection, num) ==
    maxConnection # 0 /\ num >= maxConnection

\* no max-connection check
exceedsMaxConnectionNever(maxConnection, num) == FALSE

\* the max-connection check made after the upgrade
exceedsMaxConnection(maxConnection, num) ==
    maxConnection # 0 /\ num > maxConnection

\* the deferred counter function with its decrement lost
deferredDoneLost(counterIncremented, c) == c

\* the deferred counter function without its counterIncremented test
deferredDoneUnguarded(counterIncremented, c) == counterDone(c)

\* the counter after the deferred function that pairs add with done
deferredDone(counterIncremented, c) ==
    IF counterIncremented THEN counterDone(c) ELSE c

\* The first frame a client sends: ReadMessage may fail; the frame has a
\* type; its payload is or is not JSON; the JSON carries an AuthToken.
\* One frame that authenticates, and frames that each fail one check of
\* processWSConn and would pass the others.
InitFrames ==
    {[readErr |-> TRUE, typ |-> "text", json |-> TRUE, AuthToken |-> "secret"],
     [readErr |-> FALSE, typ |-> "binary", json |-> TRUE, AuthToken |-> "secret"],
     [readErr |-> FALSE, typ |-> "text", json |-> FALSE, AuthToken |-> "secret"],
     [readErr |-> FALSE, typ |-> "text", json |-> TRUE, AuthToken |-> "wrong"],
     [readErr |-> FALSE, typ |-> "text", json |-> TRUE, AuthToken |-> "secret"]}

\* the handler has read no frame yet
NoFrame == [readErr |-> FALSE, typ |-> "none", json |-> FALSE, AuthToken |-> ""]

\* processWSConn without the comparison of AuthToken with the credential
authenticateNoTokenCheck(f, credential) ==
    IF f.readErr
    THEN Wrapf(ErrNew("read error"), "failed to authenticate websocket connection")
    ELSE IF f.typ # "text"
    THEN ErrNew("failed to authenticate websocket connection: invalid message type")
    ELSE IF ~f.json
    THEN Wrapf(ErrNew("json error"), "failed to authenticate websocket connection")
    ELSE NilErr

\* the authentication part of processWSConn: the error it returns, nil
\* when the frame authenticates
authenticate(f, credential) ==
    IF f.readErr
    THEN Wrapf(ErrNew("read error"), "failed to authenticate websocket connection")
    ELSE IF f.typ # "text"
    THEN ErrNew("failed to authenticate websocket connection: invalid message type")
    ELSE IF ~f.json
    THEN Wrapf(ErrNew("json error"), "failed to authenticate websocket connection")
    ELSE IF f.AuthToken # credential
    THEN ErrNew("failed to authenticate websocket connection")
    ELSE NilErr

\* what can go wrong between authentication and the bridge
BackendOutcomes == {"ok", "args", "factory", "title", "webtty"}

backendErr(outcome) ==
    CASE outcome = "args" -> Wrapf(ErrNew("parse error"), "failed to parse arguments")
      [] outcome = "factory" -> Wrapf(ErrNew("factory error"), "failed to create backend")
      [] outcome = "title" ->
           Wrapf(ErrNew("template error"), "failed to fill window title template")
      [] outcome = "webtty" -> Wrapf(ErrNew("webtty error"), "failed to create webtty")
      [] OTHER -> NilErr

\* how many times processWSConn calls server.factory.New when what follows
\* authentication ends as given: once, unless the arguments do not parse
factoryCallsAt(outcome) ==
    IF outcome = "args" THEN 0 ELSE 1

\* the errors tty.Run can return: a sentinel, a transport error, nil, or
\* the context's error once the context is canceled
BridgeErrors(canceled) ==
    {NilErr, Sentinel("ErrMasterClosed"), Sentinel("ErrSlaveClosed"),
     Sentinel("context.DeadlineExceeded"), ErrNew("transport error")}
      \cup (IF canceled THEN {Sentinel("context.Canceled")} ELSE {})

\* the decommission flag the handler hands to finish
sessionShouldDecommissionOf(env, e) ==
    IF env # envValueDev THEN shouldDecommission(e) ELSE FALSE

\* the handler without its deferred guard.finish
afterDeferredDoneNoFinish(guard, env) == "done"

\* where the handler stands once the deferred counter function has run:
\* the deferred guard.finish is next (a dev ticket's finish returns at
\* once, touching nothing)
afterDeferredDone(guard, env) ==
    IF guard /\ env # envValueDev THEN "defer_finish" ELSE "done"

\* how many times the handler has called finish once it is there
finishCallsAfterDeferredDone(guard, env) ==
    IF guard /\ env = envValueDev THEN 1 ELSE 0

\* the environments requests resolve to
ResolvedEnvs ==
    {resolveEnvFromRequest(query, cookie) :
        query \in QueryValues, cookie \in CookieValues}

\* the results of authenticating the frames clients send
AuthResults(credential) == {authenticate(f, credential) : f \in InitFrames}

\* ------------------------------------------------------------- handler
\* The locals of one run of the handler of generateHandleWS, and what it
\* has answered so far. num is kept only until the max-connection check,
\* its last use.
FreshReq ==
    [pc |-> "idle", env |-> envValueProd, guard |-> FALSE, num |-> 0,
     counterIncremented |-> FALSE, sessionShouldDecommission |-> FALSE,
     err |-> NilErr, status |-> "none", stage |-> "none", connOpen |-> FALSE,
     finishCalls |-> 0, doneCalls |-> 0, destroyed |-> FALSE,
     frame |-> NoFrame, factoryCalls |-> 0]

Init ==
    /\ decommissioned = FALSE
    /\ activeSession = FALSE
    /\ unhealthy = FALSE
    /\ sessionMu = 0
    /\ live = 0
    /\ once = 0
    /\ ctxCanceled = FALSE
    /\ options \in [MaxConnection : 0..MaxConnLimit, Once : BOOLEAN,
                    Credential : Credentials]
    /\ req = [h \in Handlers |-> FreshReq]

\* A request arrives on a free handler slot; its environment is resolved
\* from the query parameter and the cookie.
NewRequest(h) ==
    /\ req[h].pc \in {"idle", "done"}
    /\ \E env \in ResolvedEnvs :
         req' = [req EXCEPT ![h] = [FreshReq EXCEPT !.pc = "gate", !.env = env]]
    /\ UNCHANGED <<server, live, once, ctxCanceled, options>>

\* wrapUnhealthy: the health gate in front of the handler
wrapUnhealthy(h) ==
    /\ req[h].pc = "gate"
    /\ IF isUnhealthy(unhealthy)
       THEN req' = [req EXCEPT ![h].pc = "done",
                               ![h].status = "500 session closed"]
       ELSE req' = [req EXCEPT ![h].pc = IF options.Once THEN "once" ELSE "begin"]
    /\ UNCHANGED <<server, live, once, ctxCanceled, options>>

\* a compare-and-swap that swaps whatever the value is
compareAndSwapAlways(value, old) == TRUE

\* atomic.CompareAndSwapInt64: swaps, and reports it, iff the value is old
compareAndSwapSucceeds(value, old) == value = old

\* generateHandleWS, once mode: claim the single-use flag
claimOnce(h) ==
    /\ req[h].pc = "once"
    /\ IF compareAndSwapSucceeds(once, 0)
       THEN /\ once' = 1
            /\ req' = [req EXCEPT ![h].pc = "begin"]
       ELSE /\ once' = once
            /\ req' = [req EXCEPT ![h].pc = "done",
                                  ![h].status = "503 Server is shutting down"]
    /\ UNCHANGED <<server, live, ctxCanceled, options>>

\* generateHandleWS: admission by the session guard, under sessionMu
beginManagedSession(h) ==
    /\ req[h].pc = "begin"
    /\ sessionMu = 0
    /\ LET e == beginManagedSessionErr(decommissioned, activeSession, req[h].env)
       IN  /\ activeSession' =
                beginManagedSessionActive(decommissioned, activeSession, req[h].env)
           /\ IF e = NoError
              THEN req' = [req EXCEPT ![h].pc = "method", ![h].guard = TRUE]
              ELSE req' = [req EXCEPT
                             ![h].pc = "done",
                             ![h].status = IF e = errServerDestroyed
                                           THEN "503 Server is unavailable"
                                           ELSE "503 Another session is active"]
    /\ UNCHANGED <<decommissioned, unhealthy, sessionMu, live, once, ctxCanceled,
                   options>>

\* The handler returns with the given answer: the deferred conn.Close runs,
\* then the deferred counter function (counter.done if the counter was
\* incremented, and cancel in once mode); the deferred guard.finish is left.
returns(h, r) ==
    /\ live' = deferredDone(r.counterIncremented, live)
    /\ ctxCanceled' = (ctxCanceled \/ (r.counterIncremented /\ options.Once))
    /\ req' = [req EXCEPT ![h] =
                 [r EXCEPT !.pc = afterDeferredDone(r.guard, r.env),
                           !.num = 0,
                           !.connOpen = FALSE,
                           !.doneCalls = IF live' # live THEN @ + 1 ELSE @,
                           !.finishCalls =
                               finishCallsAfterDeferredDone(r.guard, r.env)]]

\* processWSConn returns e at the given stage; the handler classifies it
\* and returns
returned(h, r, e, stage) ==
    returns(h, [r EXCEPT
                  !.err = e,
                  !.stage = stage,
                  !.sessionShouldDecommission =
                      sessionShouldDecommissionOf(r.env, e)])

\* generateHandleWS: the method check, then counter.add(1)
addConnection(h) ==
    /\ req[h].pc = "method"
    /\ \E method \in Methods :
         IF method # "GET"
         THEN returns(h, [req[h] EXCEPT !.status = "405 Method not allowed"])
         ELSE /\ live' = counterAdd(live, 1)
              /\ req' = [req EXCEPT ![h].pc = "upgrade",
                                    ![h].num = live',
                                    ![h].counterIncremented = TRUE]
              /\ ctxCanceled' = ctxCanceled
    /\ UNCHANGED <<server, once, options>>

\* generateHandleWS: the upgrade, then the max-connection check
upgrade(h) ==
    /\ req[h].pc = "upgrade"
    /\ \E ok \in BOOLEAN :
         IF ~ok
         THEN returns(h, [req[h] EXCEPT !.status = "upgrade failed"])
         ELSE IF exceedsMaxConnection(options.MaxConnection, req[h].num)
         THEN returns(h, [req[h] EXCEPT !.connOpen = TRUE,
                                        !.status = "close 4000"])
         ELSE /\ req' = [req EXCEPT ![h].pc = "auth",
                                    ![h].num = 0,
                                    ![h].connOpen = TRUE,
                                    ![h].status = "upgraded"]
              /\ UNCHANGED <<live, ctxCanceled>>
    /\ UNCHANGED <<server, once, options>>

\* processWSConn: read and check the init frame
readInitMessage(h) ==
    /\ req[h].pc = "auth"
    /\ \E f \in InitFrames :
         LET e == authenticate(f, options.Credential)
         IN  IF e = NilErr
             THEN /\ req' = [req EXCEPT ![h].pc = "backend", ![h].frame = f]
                  /\ UNCHANGED <<live, ctxCanceled>>
             ELSE returned(h, [req[h] EXCEPT !.frame = f], e, "auth")
    /\ UNCHANGED <<server, once, options>>

\* processWSConn: arguments, backend, title and bridge construction
createBackend(h) ==
    /\ req[h].pc = "backend"
    /\ \E outcome \in BackendOutcomes :
         IF outcome = "ok"
         THEN /\ req' = [req EXCEPT ![h].pc = "bridge",
                                    ![h].factoryCalls = @ + factoryCallsAt("ok")]
              /\ UNCHANGED <<live, ctxCanceled>>
         ELSE returned(h, [req[h] EXCEPT
                              !.factoryCalls = @ + factoryCallsAt(outcome)],
                       backendErr(outcome), outcome)
    /\ UNCHANGED <<server, once, options>>

\* processWSConn: tty.Run returns
bridgeReturns(h) ==
    /\ req[h].pc = "bridge"
    /\ \E e \in BridgeErrors(ctxCanceled) : returned(h, req[h], e, "bridge")
    /\ UNCHANGED <<server, once, options>>

\* the deferred guard.finish of a prod ticket: up to the store into
\* decommissioned
finish(h) ==
    /\ req[h].pc = "defer_finish"
    /\ sessionMu = 0
    /\ activeSession' = finishActive(req[h].env, activeSession)
    /\ IF finishDestroys(req[h].env, req[h].sessionShouldDecommission,
                         decommissioned)
       THEN /\ decommissioned' = TRUE
            /\ sessionMu' = h
            /\ req' = [req EXCEPT ![h].pc = "finish_mark"]
       ELSE /\ decommissioned' = decommissioned
            /\ sessionMu' = 0
            /\ req' = [req EXCEPT ![h].pc = "done", ![h].finishCalls = @ + 1]
    /\ UNCHANGED <<unhealthy, live, once, ctxCanceled, options>>

\* the rest of a decommissioning finish: markUnhealthy, unlock, return true
finishMarkUnhealthy(h) ==
    /\ req[h].pc = "finish_mark"
    /\ sessionMu = h
    /\ unhealthy' = markUnhealthy(unhealthy)
    /\ sessionMu' = 0
    /\ req' = [req EXCEPT ![h].pc = "done", ![h].finishCalls = @ + 1,
                          ![h].destroyed = TRUE]
    /\ UNCHANGED <<decommissioned, activeSession, live, once, ctxCanceled, options>>

\* the goroutine of generateHandleWS: the idle timer fires before the
\* context is done, and cancels it
timerFires ==
    /\ ~ctxCanceled
    /\ ctxCanceled' = TRUE
    /\ UNCHANGED <<server, live, once, options, req>>

Next ==
    \/ \E h \in Handlers : NewRequest(h)
    \/ \E h \in Handlers : wrapUnhealthy(h)
    \/ \E h \in Handlers : claimOnce(h)
    \/ \E h \in Handlers : beginManagedSession(h)
    \/ \E h \in Handlers : addConnection(h)
    \/ \E h \in Handlers : upgrade(h)
    \/ \E h \in Handlers : readInitMessage(h)
    \/ \E h \in Handlers : createBackend(h)
    \/ \E h \in Handlers : bridgeReturns(h)
    \/ \E h \in Handlers : finish(h)
    \/ \E h \in Handlers : finishMarkUnhealthy(h)
    \/ timerFires

Spec == Init /\ [][Next]_vars

\* ------------------------------------------------------------- guard API
\* The session guard driven directly by callers of the package: a caller
\* obtains a ticket with beginManagedSession and calls finish on it, up to
\* MaxFinishCalls times with the same argument.
MaxFinishCalls == 2

guardBegin(h) ==
    /\ req[h].pc = "idle"
    /\ \E env \in ResolvedEnvs :
         LET e == beginManagedSessionErr(decommissioned, activeSession, env)
         IN  /\ activeSession' =
                  beginManagedSessionActive(decommissioned, activeSession, env)
             /\ IF e = NoError
                THEN req' = [req EXCEPT ![h] =
                               [FreshReq EXCEPT !.pc = "ticket", !.env = env,
                                                !.guard = TRUE]]
                ELSE req' = [req EXCEPT ![h] =
                               [FreshReq EXCEPT !.env = env, !.status = e]]
    /\ UNCHANGED <<decommissioned, unhealthy, sessionMu, live, once, ctxCanceled,
                   options>>

guardFinish(h) ==
    /\ req[h].pc = "ticket"
    /\ req[h].finishCalls < MaxFinishCalls
    /\ \E decommission \in BOOLEAN :
         /\ req[h].finishCalls > 0 => decommission = req[h].sessionShouldDecommission
         /\ LET destroys == finishDestroys(req[h].env, decommission, decommissioned)
            IN  /\ activeSession' = finishActive(req[h].env, activeSession)
                /\ decommissioned' = (decommissioned \/ destroys)
                /\ unhealthy' = IF destroys THEN markUnhealthy(unhealthy) ELSE unhealthy
                /\ req' = [req EXCEPT ![h].finishCalls = @ + 1,
                                      ![h].sessionShouldDecommission = decommission,
                                      ![h].destroyed = destroys]
    /\ UNCHANGED <<sessionMu, live, once, ctxCanceled, options>>

\* the caller drops a ticket it has finished
guardForget(h) ==
    /\ req[h].pc = "ticket"
    /\ req[h].finishCalls > 0
    /\ req' = [req EXCEPT ![h] = FreshReq]
    /\ UNCHANGED <<server, live, once, ctxCanceled, options>>

NextGuard ==
    \/ \E h \in Handlers : guardBegin(h)
    \/ \E h \in Handlers : guardFinish(h)
    \/ \E h \in Handlers : guardForget(h)

SpecGuard == Init /\ [][NextGuard]_vars

\* ------------------------------------------------------------- prod only
\* The server with every request resolving to prod.
NewRequestProd(h) ==
    /\ NewRequest(h)
    /\ req'[h].env = envValueProd

NextProd ==
    \/ \E h \in Handlers : NewRequestProd(h)
    \/ \E h \in Handlers : wrapUnhealthy(h)
    \/ \E h \in Handlers : claimOnce(h)
    \/ \E h \in Handlers : beginManagedSession(h)
    \/ \E h \in Handlers : addConnection(h)
    \/ \E h \in Handlers : upgrade(h)
    \/ \E h \in Handlers : readInitMessage(h)
    \/ \E h \in Handlers : createBackend(h)
    \/ \E h \in Handlers : bridgeReturns(h)
    \/ \E h \in Handlers : finish(h)
    \/ \E h \in Handlers : finishMarkUnhealthy(h)
    \/ timerFires

SpecProd == Init /\ [][NextProd]_vars

\* ------------------------------------------------------------- arguments
\* The argument merging of processWSConn on its own: the Arguments of the
\* init message and the query of the HTTP request go in, the parameters
\* handed to server.factory.New come out.
MaxArgPairs == 2
MaxQueryPairs == 1

ParamKeys == {"foo", "bar"}
ParamValues == {"1", "2", "3"}

\* key=value
Pairs == [k : ParamKeys, v : ParamValues]

SeqsUpTo(S, n) == UNION {[1..m -> S] : m \in 0..n}

\* A string a client can send as Arguments: a "?" or none, then pairs
\* joined by "&", with or without an ASCII control character in it.
ArgumentStrings ==
    [lead : {"", "?"}, pairs : SeqsUpTo(Pairs, MaxArgPairs), ctl : BOOLEAN]

EmptyString == [lead |-> "", pairs |-> <<>>, ctl |-> FALSE]

\* the string "?"
QuestionMark == [lead |-> "?", pairs |-> <<>>, ctl |-> FALSE]

\* url.Values with no key
NoParams == [k \in ParamKeys |-> <<>>]

\* url.ParseQuery: the values of each key, in the order of the pairs
RECURSIVE parseQuery(_)
parseQuery(pairs) ==
    IF pairs = <<>> THEN NoParams
    ELSE LET front == parseQuery(SubSeq(pairs, 1, Len(pairs) - 1))
             last == pairs[Len(pairs)]
         IN  [front EXCEPT ![last.k] = Append(@, last.v)]

\* url.Parse: a control character is an error; what follows the "?" is the
\* raw query, and a string without "?" is all path
urlParse(u) ==
    [err |-> u.ctl,
     RawQuery |-> IF u.lead = "?" THEN u.pairs ELSE <<>>]

\* the string processWSConn parses
queryPath(permitArguments, arguments) ==
    IF permitArguments /\ arguments # EmptyString THEN arguments ELSE QuestionMark

\* the overlay with the init message winning
mergeParamsInitWins(params, httpQueryParams) ==
    [k \in ParamKeys |-> IF params[k] # <<>> THEN params[k] ELSE httpQueryParams[k]]

\* the loop that overlays the HTTP query parameters on the parsed ones
mergeParams(params, httpQueryParams) ==
    [k \in ParamKeys |->
        IF httpQueryParams[k] # <<>> THEN httpQueryParams[k] ELSE params[k]]

InitArgs ==
    /\ decommissioned = FALSE
    /\ activeSession = FALSE
    /\ unhealthy = FALSE
    /\ sessionMu = 0
    /\ live = 0
    /\ once = 0
    /\ ctxCanceled = FALSE
    /\ options \in [MaxConnection : {0}, Once : {FALSE}, Credential : Credentials,
                    PermitArguments : BOOLEAN]
    /\ req \in [pc : {"backend"}, Arguments : ArgumentStrings,
                httpQuery : SeqsUpTo(Pairs, MaxQueryPairs),
                params : {NoParams}, err : {NilErr}, factoryCalls : {0}]

\* processWSConn from the parsing of the arguments to server.factory.New
mergeArguments ==
    /\ req.pc = "backend"
    /\ LET query == urlParse(queryPath(options.PermitArguments, req.Arguments))
       IN  IF query.err
           THEN req' = [req EXCEPT !.pc = "returned", !.err = backendErr("args")]
           ELSE req' = [req EXCEPT
                          !.pc = "factory",
                          !.params = mergeParams(parseQuery(query.RawQuery),
                                                 parseQuery(req.httpQuery)),
                          !.factoryCalls = @ + factoryCallsAt("ok")]
    /\ UNCHANGED <<server, live, once, ctxCanceled, options>>

NextArgs == mergeArguments

SpecArgs == InitArgs /\ [][NextArgs]_vars

\* ------------------------------------------------------------- properties
\* handler h has taken a step
Stepped(h) == req'[h] # req[h]

\* handler h holds a prod ticket: admitted, finish not yet called
HoldsProdTicket(h) ==
    /\ req[h].guard
    /\ req[h].env # envValueDev
    /\ req[h].finishCalls = 0
    /\ req[h].pc \notin {"finish_mark", "done"}

\* handler h is in a session that counts as live: upgraded and not ended
InSession(h) == req[h].pc \in {"auth", "backend", "bridge"}

\* the bridge results the specification calls a clean termination
CleanBridgeErrors ==
    {NilErr, Sentinel("context.Canceled"), Sentinel("context.DeadlineExceeded"),
     Sentinel("ErrMasterClosed"), Sentinel("ErrSlaveClosed")}

\* the run of the handler ended otherwise than by a clean end of the bridge
NonClean(r) ==
    \/ r.status \in {"405 Method not allowed", "upgrade failed", "close 4000"}
    \/ r.stage \in {"auth", "args", "factory", "title", "webtty"}
    \/ r.stage = "bridge" /\ r.err \notin CleanBridgeErrors

\* C1: mutual exclusion. At most one prod ticket is held at any time, and a
\* beginManagedSession(prod) made while another prod ticket is held fails
\* with SessionActive.
C1_MutualExclusion ==
    /\ [](Cardinality({h \in Handlers : HoldsProdTicket(h)}) <= 1)
    /\ [][\A h \in Handlers :
            (/\ req[h].pc = "begin"
             /\ Stepped(h)
             /\ req[h].env # envValueDev
             /\ \E g \in Handlers \ {h} : HoldsProdTicket(g))
            => (/\ ~req'[h].guard
                /\ req'[h].status = "503 Another session is active")]_vars

\* a prod attempt has been refused while another handler holds the prod ticket
C1_Witness ==
    \E h, g \in Handlers :
        /\ h # g
        /\ HoldsProdTicket(g)
        /\ req[g].pc = "bridge"
        /\ req[h].pc = "done"
        /\ req[h].status = "503 Another session is active"

\* C2 as stated: dev bypass. Every beginManagedSession(dev) succeeds and
\* returns a ticket, in every server state, decommissioned included.
C2_DevAlwaysAdmitted ==
    [][\A h \in Handlers :
         (req[h].pc = "begin" /\ Stepped(h) /\ req[h].env = envValueDev)
         => req'[h].guard]_vars

\* C2 as amended: every beginManagedSession(dev) made while the server is
\* not decommissioned succeeds, also while a prod session is active; on a
\* decommissioned server it fails with ServerDestroyed like any other.
C2_DevAdmittedUnlessDestroyed ==
    [][\A h \in Handlers :
         (req[h].pc = "begin" /\ Stepped(h) /\ req[h].env = envValueDev)
         => IF decommissioned
            THEN ~req'[h].guard /\ req'[h].status = "503 Server is unavailable"
            ELSE req'[h].guard /\ activeSession' = activeSession]_vars

\* a dev ticket has been granted while a prod session is active
C2_Witness ==
    \E h, g \in Handlers :
        /\ req[h].env = envValueDev
        /\ req[h].guard
        /\ req[h].pc = "method"
        /\ HoldsProdTicket(g)
        /\ activeSession

\* C3: one-way decommission. decommissioned, once true, stays true, and
\* every later beginManagedSession with a prod env fails with
\* ServerDestroyed.
C3_OneWayDecommission ==
    [][/\ decommissioned => decommissioned'
       /\ \A h \in Handlers :
            (/\ decommissioned
             /\ req[h].pc = "begin"
             /\ Stepped(h)
             /\ req[h].env # envValueDev)
            => (/\ ~req'[h].guard
                /\ req'[h].status = "503 Server is unavailable")]_vars

\* a prod attempt has been refused by the decommissioned server
C3_Witness ==
    /\ decommissioned
    /\ \E h \in Handlers :
         /\ req[h].env # envValueDev
         /\ req[h].pc = "done"
         /\ req[h].status = "503 Server is unavailable"

\* C4: clean termination decommissions. When the bridge of an admitted prod
\* session has returned nil, a context error, MasterClosed or SlaveClosed,
\* the server is decommissioned and unhealthy once the handler has returned.
C4_CleanTerminationDecommissions ==
    \A h \in Handlers :
        (/\ req[h].pc = "done"
         /\ req[h].env # envValueDev
         /\ req[h].stage = "bridge"
         /\ req[h].err \in CleanBridgeErrors)
        => (decommissioned /\ unhealthy)

\* a prod session whose bridge returned nil has ended and decommissioned
\* the server
C4_Witness ==
    \E h \in Handlers :
        /\ req[h].pc = "done"
        /\ req[h].env # envValueDev
        /\ req[h].stage = "bridge"
        /\ req[h].err = NilErr
        /\ req[h].destroyed
        /\ decommissioned
        /\ unhealthy

\* C5: non-clean termination only releases the slot. No step of a prod
\* session that ends non-cleanly changes decommissioned or unhealthy; its
\* finish frees the slot, and a prod admission made with the slot free on
\* a server not decommissioned succeeds.
C5_NonCleanOnlyReleases ==
    [][\A h \in Handlers :
         /\ (/\ Stepped(h)
             /\ req[h].env # envValueDev
             /\ \/ req[h].pc \notin {"defer_finish", "finish_mark"}
                \/ NonClean(req[h]))
            => (decommissioned' = decommissioned /\ unhealthy' = unhealthy)
         /\ (/\ req[h].pc = "defer_finish"
             /\ Stepped(h)
             /\ NonClean(req[h]))
            => (/\ req'[h].pc = "done"
                /\ ~req'[h].destroyed
                /\ ~activeSession')
         /\ (/\ req[h].pc = "begin"
             /\ Stepped(h)
             /\ req[h].env # envValueDev
             /\ ~decommissioned
             /\ ~activeSession)
            => req'[h].guard]_vars

\* a prod session has ended on a failed authentication, the server is not
\* decommissioned, and another prod session has since been admitted
C5_Witness ==
    \E h, g \in Handlers :
        /\ req[h].pc = "done"
        /\ req[h].env # envValueDev
        /\ req[h].stage = "auth"
        /\ req[h].finishCalls = 1
        /\ HoldsProdTicket(g)
        /\ ~decommissioned
        /\ ~unhealthy

\* C6 as stated: decommissioned => unhealthy in every state a handler that
\* does not hold the guard mutex observes, the health gate in particular.
C6_GateSeesInvariant ==
    \A h \in Handlers :
        (req[h].pc = "gate" /\ sessionMu # h) => (decommissioned => unhealthy)

\* C6 as amended: decommissioned => unhealthy in every state in which no
\* handler holds the guard mutex.
C6_InvariantWhenUnlocked ==
    sessionMu = 0 => (decommissioned => unhealthy)

\* the server has been decommissioned and the mutex released
C6_Witness ==
    /\ sessionMu = 0
    /\ decommissioned
    /\ unhealthy
    /\ \E h \in Handlers : req[h].pc = "done" /\ req[h].destroyed

\* every handler in flight is blocked inside the bridge
Quiescent == \A h \in Handlers : req[h].pc \in {"idle", "done", "bridge"}

\* C7: counter balance. The live counter is never negative; a handler that
\* incremented it decrements it exactly once, one that did not never does;
\* at a quiescent point it equals the number of bridging sessions.
C7_CounterBalance ==
    /\ live >= 0
    /\ \A h \in Handlers :
         /\ req[h].doneCalls <= (IF req[h].counterIncremented THEN 1 ELSE 0)
         /\ req[h].pc = "done"
            => req[h].doneCalls = (IF req[h].counterIncremented THEN 1 ELSE 0)
    /\ Quiescent => live = Cardinality({h \in Handlers : req[h].pc = "bridge"})

\* one session is bridging, another has been counted and has ended
C7_Witness ==
    /\ live = 1
    /\ \E h, g \in Handlers :
         /\ req[h].pc = "bridge"
         /\ req[g].pc = "done"
         /\ req[g].counterIncremented
         /\ req[g].doneCalls = 1

\* C8: guaranteed release. A handler that obtained a ticket calls finish on
\* it exactly once on every exit path, one that was refused never does;
\* with no handler in flight activeSession is false.
C8_GuaranteedRelease ==
    /\ \A h \in Handlers :
         /\ req[h].finishCalls <= (IF req[h].guard THEN 1 ELSE 0)
         /\ req[h].pc = "done"
            => req[h].finishCalls = (IF req[h].guard THEN 1 ELSE 0)
    /\ (\A h \in Handlers : req[h].pc \in {"idle", "done"}) => ~activeSession

\* no handler is in flight; a prod session left on the method check and
\* released its ticket, another attempt was refused
C8_Witness ==
    /\ \A h \in Handlers : req[h].pc = "done"
    /\ \E h, g \in Handlers :
         /\ req[h].guard
         /\ req[h].env # envValueDev
         /\ req[h].status = "405 Method not allowed"
         /\ req[h].finishCalls = 1
         /\ ~req[g].guard
         /\ req[g].finishCalls = 0
         /\ req[g].status = "503 Another session is active"

\* C9: idempotent release. A second finish on the same ticket, with the
\* same argument, leaves activeSession and decommissioned as the first call
\* left the server, whatever admissions and releases came in between.
C9_IdempotentRelease ==
    [][\A h \in Handlers :
         (req[h].pc = "ticket" /\ req[h].finishCalls >= 1
            /\ req'[h].finishCalls = req[h].finishCalls + 1)
         => (activeSession' = activeSession /\ decommissioned' = decommissioned)]_vars

\* C10 as stated: with MaxConnection = 1 a second attempt made while a first
\* session is live is upgraded and then closed with 4000, and a third made
\* after the first two have ended is accepted.
C10_SecondClosedThirdAccepted ==
    [][\A h \in Handlers :
         options.MaxConnection = 1 =>
           /\ (/\ req[h].pc = "begin"
               /\ Stepped(h)
               /\ \E g \in Handlers \ {h} : InSession(g))
              => req'[h].guard
           /\ (/\ req[h].pc = "upgrade"
               /\ Stepped(h)
               /\ req[h].num > 1
               /\ req'[h].status # "upgrade failed")
              => req'[h].status = "close 4000"
           /\ (/\ req[h].pc = "begin"
               /\ Stepped(h)
               /\ \A g \in Handlers \ {h} : req[g].pc \in {"idle", "done"})
              => req'[h].guard]_vars

\* C10 as amended: with MaxConnection = 1, an attempt the guard admits while
\* a first session is live reads a count above 1 and, its upgrade made, is
\* closed with 4000 without reaching authentication; a prod attempt made
\* while a prod session is live is answered 503 before any upgrade; an
\* attempt the guard admits when every other session has ended reads 1 and,
\* its upgrade made, goes on to authentication.
C10_AdmittedSecondClosedThirdAccepted ==
    [][\A h \in Handlers :
         options.MaxConnection = 1 =>
           /\ (/\ req[h].pc = "begin"
               /\ Stepped(h)
               /\ req[h].env # envValueDev
               /\ \E g \in Handlers \ {h} : InSession(g) /\ req[g].env # envValueDev)
              => (~req'[h].guard /\ req'[h].status = "503 Another session is active")
           /\ (/\ req[h].pc = "method"
               /\ req'[h].pc = "upgrade"
               /\ \E g \in Handlers \ {h} : InSession(g))
              => req'[h].num > 1
           /\ (/\ req[h].pc = "upgrade"
               /\ Stepped(h)
               /\ req[h].num > 1
               /\ req'[h].status # "upgrade failed")
              => (/\ req'[h].status = "close 4000"
                  /\ req'[h].pc \in {"defer_finish", "done"})
           /\ (/\ req[h].pc = "method"
               /\ req'[h].pc = "upgrade"
               /\ \A g \in Handlers \ {h} : req[g].pc \in {"idle", "done"})
              => req'[h].num = 1
           /\ (/\ req[h].pc = "upgrade"
               /\ Stepped(h)
               /\ req[h].num = 1
               /\ req'[h].status # "upgrade failed")
              => (req'[h].pc = "auth" /\ req'[h].status = "upgraded")]_vars

\* with MaxConnection = 1, an attempt has been closed with 4000 while the
\* first session is still bridging
C10_Witness ==
    /\ options.MaxConnection = 1
    /\ \E h, g \in Handlers :
         /\ req[g].pc = "bridge"
         /\ req[h].pc = "done"
         /\ req[h].status = "close 4000"
         /\ req[h].guard

\* the handler has read a frame that is not text, is not JSON, or carries
\* an AuthToken other than the credential
ReadBadFrame(h) ==
    /\ req[h].frame # NoFrame
    /\ ~req[h].frame.readErr
    /\ \/ req[h].frame.typ # "text"
       \/ ~req[h].frame.json
       \/ req[h].frame.AuthToken # options.Credential

\* C11: auth rejection. A session whose first frame is not a text frame, is
\* not valid JSON or carries a wrong AuthToken never reaches backend
\* creation, the factory is never called for it, and its socket is closed
\* when the handler has returned.
C11_AuthRejection ==
    \A h \in Handlers :
        ReadBadFrame(h)
        => (/\ req[h].factoryCalls = 0
            /\ req[h].pc \in {"defer_finish", "finish_mark", "done"}
            /\ req[h].stage = "auth"
            /\ req[h].pc = "done" => ~req[h].connOpen)

\* a session that sent a wrong AuthToken has ended: upgraded, no backend
\* created, socket closed
C11_Witness ==
    \E h \in Handlers :
        /\ req[h].pc = "done"
        /\ req[h].status = "upgraded"
        /\ req[h].frame.typ = "text"
        /\ req[h].frame.json
        /\ req[h].frame.AuthToken = "wrong"
        /\ req[h].factoryCalls = 0
        /\ ~req[h].connOpen
\* the values a key has among pairs, in their order
ValuesOf(pairs, k) ==
    LET sel == SelectSeq(pairs, LAMBDA p : p.k = k)
    IN  [i \in 1..Len(sel) |-> sel[i].v]

\* the Arguments of the init message are used
ArgumentsUsed == options.PermitArguments /\ req.Arguments # EmptyString

\* C12 as stated: the factory gets the pairs of Arguments (when used),
\* overlaid by the HTTP query parameters, HTTP winning per key; Arguments
\* "foo=1&bar=2" with the HTTP query ?bar=3 give {foo:1, bar:3}.
C12_ArgumentsAreAQueryString ==
    req.pc = "factory" =>
        \A k \in ParamKeys :
            req.params[k] =
                IF ValuesOf(req.httpQuery, k) # <<>> THEN ValuesOf(req.httpQuery, k)
                ELSE IF ArgumentsUsed THEN ValuesOf(req.Arguments.pairs, k)
                ELSE <<>>

\* C12 as amended: Arguments (when used) is parsed as a URL, so that its
\* pairs count only behind a leading "?"; the factory gets them overlaid by
\* the HTTP query parameters, HTTP winning per key; it is not called when
\* Arguments does not parse.
C12_ArgumentsAreAURL ==
    /\ req.pc = "factory" =>
        \A k \in ParamKeys :
            req.params[k] =
                IF ValuesOf(req.httpQuery, k) # <<>> THEN ValuesOf(req.httpQuery, k)
                ELSE IF ArgumentsUsed /\ req.Arguments.lead = "?"
                THEN ValuesOf(req.Arguments.pairs, k)
                ELSE <<>>
    /\ req.pc = "returned" => (ArgumentsUsed /\ req.Arguments.ctl /\ req.factoryCalls = 0)
    /\ req.pc = "factory" => (~(ArgumentsUsed /\ req.Arguments.ctl) /\ req.factoryCalls = 1)

\* Arguments "?foo=1&bar=2" with the HTTP query ?bar=3 have given the
\* factory {foo:1, bar:3}
C12_Witness ==
    /\ req.pc = "factory"
    /\ options.PermitArguments
    /\ req.Arguments = [lead |-> "?", ctl |-> FALSE,
                        pairs |-> <<[k |-> "foo", v |-> "1"], [k |-> "bar", v |-> "2"]>>]
    /\ req.httpQuery = <<[k |-> "bar", v |-> "3"]>>
    /\ req.params = [k \in ParamKeys |-> IF k = "foo" THEN <<"1">> ELSE <<"3">>]
\* handler h passed the once flag and has completed
ClaimedOnceAndCompleted(h) ==
    /\ options.Once
    /\ req[h].pc = "done"
    /\ req[h].status \notin {"500 session closed", "503 Server is shutting down"}

\* C13: in once mode, when the request that claimed the flag has completed
\* its handler, the process-wide context has been canceled, whatever the
\* path the request took.
C13_OnceModeCancellation ==
    \A h \in Handlers : ClaimedOnceAndCompleted(h) => ctxCanceled
\* handler h stands past the once flag, in the handler
PastOnceFlag(h) ==
    req[h].pc \in {"begin", "method", "upgrade", "auth", "backend", "bridge",
                   "defer_finish", "finish_mark"}

\* C14: in once mode one request passes the single-use flag, the one that
\* finds it unclaimed; every other request is answered 503 and reaches
\* neither the guard, nor the counter, nor the upgrade.
C14_OnceSingleClaim ==
    [][/\ once = 1 => once' = 1
       /\ \A h \in Handlers :
            (req[h].pc = "once" /\ req'[h] # req[h]) =>
                IF once = 0
                THEN /\ req'[h].pc = "begin"
                     /\ once' = 1
                ELSE /\ req'[h] = [req[h] EXCEPT
                                     !.pc = "done",
                                     !.status = "503 Server is shutting down"]
                     /\ ~req'[h].guard
                     /\ ~req'[h].counterIncremented
                     /\ ~req'[h].connOpen
                     /\ UNCHANGED <<server, live, once, ctxCanceled>>
       /\ \A h \in Handlers :
            (options.Once /\ ~PastOnceFlag(h) /\ PastOnceFlag(h)') => once = 0
       /\ options.Once =>
            Cardinality({h \in Handlers : PastOnceFlag(h)'}) <= 1]_vars

\* one request holds the flag and is in its session, another has been
\* answered 503 at the flag
C14_Witness ==
    /\ options.Once
    /\ \E h, g \in Handlers :
         /\ req[h].pc = "bridge"
         /\ req[g].pc = "done"
         /\ req[g].status = "503 Server is shutting down"
\* C15: health gate. unhealthy becomes true only in a decommissioning
\* finish and never becomes false again; the gate answers 500 without
\* calling the wrapped handler while unhealthy is true, and hands the
\* request to the handler otherwise.
C15_HealthGate ==
    [][/\ unhealthy => unhealthy'
       /\ (~unhealthy /\ unhealthy') =>
            \E h \in Handlers :
                /\ req[h].pc = "finish_mark"
                /\ req'[h].pc = "done"
                /\ req[h].env # envValueDev
                /\ req[h].sessionShouldDecommission
                /\ decommissioned
       /\ \A h \in Handlers :
            (req[h].pc = "gate" /\ Stepped(h)) =>
                IF unhealthy
                THEN /\ req'[h] = [req[h] EXCEPT !.pc = "done",
                                                 !.status = "500 session closed"]
                     /\ UNCHANGED <<server, live, once, ctxCanceled>>
                ELSE /\ req'[h].pc = IF options.Once THEN "once" ELSE "begin"
                     /\ req'[h].status = "none"]_vars

\* the server is unhealthy and the gate has answered a request with 500
C15_Witness ==
    /\ unhealthy
    /\ \E h \in Handlers :
         /\ req[h].pc = "done"
         /\ req[h].status = "500 session closed"
         /\ ~req[h].guard
\* C16: handshake order. A request counts in the live counter only once its
\* upgrade has succeeded, so that one whose upgrade fails never changes the
\* counter, and a connection is closed with 4000 only for MaxConnection
\* upgraded connections beside it.
C16_HandshakeOrder ==
    [][\A h \in Handlers :
        /\ req'[h].pc = "upgrade" => ~req'[h].counterIncremented
        /\ (Stepped(h) /\ req'[h].status = "upgrade failed") =>
                (live' = live /\ req'[h].doneCalls = 0)
        /\ (Stepped(h) /\ req'[h].status = "close 4000") =>
                Cardinality({g \in Handlers \ {h} : InSession(g)})
                    >= options.MaxConnection]_vars
\* C17: dev sessions leave the guard state untouched. No step of a dev
\* session, its admission and its finish with either argument included,
\* changes activeSession, decommissioned or unhealthy.
C17_DevLeavesGuardUntouched ==
    [][\A h \in Handlers :
        (Stepped(h) /\ req'[h].env = envValueDev) =>
            UNCHANGED <<activeSession, decommissioned, unhealthy>>]_vars

\* a dev ticket has been finished with decommission = true beside a prod
\* session that is still active, on a server that is not decommissioned
C17_Witness ==
    /\ activeSession
    /\ ~decommissioned
    /\ ~unhealthy
    /\ \E h \in Handlers :
         /\ req[h].env = envValueDev
         /\ req[h].guard
         /\ req[h].finishCalls > 0
         /\ req[h].sessionShouldDecommission
\* handler h makes a finish call in this step
FinishCall(h) == req'[h].finishCalls = req[h].finishCalls + 1

\* C18: first-decommission signal. A finish call returns true exactly when
\* it changes decommissioned from false to true, which happens at most once
\* since decommissioned never goes back; a finish(true) on a server already
\* decommissioned returns false and leaves the three flags as they are.
C18_FirstDecommissionSignal ==
    [][/\ decommissioned => decommissioned'
       /\ \A h \in Handlers :
            FinishCall(h) =>
                /\ req'[h].destroyed <=> (~decommissioned /\ decommissioned')
                /\ (decommissioned /\ req'[h].sessionShouldDecommission) =>
                        /\ ~req'[h].destroyed
                        /\ UNCHANGED <<decommissioned, activeSession, unhealthy>>]_vars

\* a prod ticket has called finish(true) a second time, on the server its
\* first call decommissioned, and got false
C18_Witness ==
    /\ decommissioned
    /\ \E h \in Handlers :
         /\ req[h].env # envValueDev
         /\ req[h].finishCalls = 2
         /\ req[h].sessionShouldDecommission
         /\ ~req[h].destroyed
\* C19: max-connection bound. With a positive MaxConnection, the connections
\* that have passed the max-connection check and have not terminated
\* (authenticating, creating a backend or bridging) are never more than
\* MaxConnection, dev and prod connections mixed.
C19_MaxConnectionBound ==
    options.MaxConnection > 0 =>
        Cardinality({h \in Handlers : InSession(h)}) <= options.MaxConnection

\* MaxConnection connections are past the check, and one more has counted
\* itself in and stands before the check with a number above the maximum
C19_Witness ==
    /\ options.MaxConnection > 0
    /\ Cardinality({h \in Handlers : InSession(h)}) = options.MaxConnection
    /\ \E h \in Handlers :
         /\ req[h].pc = "upgrade"
         /\ req[h].num > options.MaxConnection
\* handler h is counted in the live counter
Counted(h) == req[h].counterIncremented /\ req[h].doneCalls = 0

\* C20: release order. A session's counter.done precedes the release of its
\* ticket, so that every counted session still holds the prod slot; with
\* every connection prod, the number a connection reads after its own
\* increment is 1 and none is closed with 4000.
C20_ReleaseOrder ==
    /\ live = Cardinality({h \in Handlers : Counted(h)})
    /\ \A h \in Handlers :
        /\ Counted(h) => HoldsProdTicket(h)
        /\ req[h].pc = "upgrade" => req[h].num = 1
        /\ req[h].status # "close 4000"

\* with MaxConnection = 1, a second prod connection has read 1 after its
\* increment, the first one having ended and released its ticket
C20_Witness ==
    /\ options.MaxConnection = 1
    /\ \E h, g \in Handlers :
         /\ req[g].pc = "done"
         /\ req[g].doneCalls = 1
         /\ req[g].finishCalls = 1
         /\ req[h].pc = "upgrade"
         /\ req[h].num = 1
====
